---- MODULE Spec2Model ----
(***************************************************************************)
(* A model of metrics/measure_collection.py: the whole-stream and the      *)
(* sliding-window measurement accumulators.  One accumulator is exercised  *)
(* per behaviour (variable `kind`, chosen in Init); the accumulators share  *)
(* no state, so the others stay as constructed.                            *)
(*                                                                         *)
(* Numbers are exact rationals [n, d]; a metric query yields a result      *)
(* record whose `kind` is "num" or the name of what Python produces        *)
(* instead ("ZeroDivisionError", "inf", "nan", "ValueError").              *)
(***************************************************************************)
EXTENDS Integers, Sequences, FiniteSets, TLC

\* ------------------------------------------------------------------ bounds
\* window_size of every windowed accumulator
WindowSize == 2
\* add_result calls (successful or failed) per behaviour
MaxCalls == 4

\* len(targets) of the classification accumulators (targets = [0, 1])
NTargets == 2
\* label inputs: 0..NTargets, the last one lies outside [0, n)
Labels == 0 .. NTargets
\* top-N prediction lists: empty, one label, two labels, a label out of range
PredLists == {<<>>, <<0>>, <<1>>, <<0, 1>>, <<NTargets>>}
\* sample weights: the default weight and another valid one
Weights == {1, 2}
\* regression inputs (y_true, y_pred): exact, over- and under-prediction
RegPairs == {<<1, 1>>, <<2, 0>>, <<3, 5>>, <<0, 3>>}
\* multi-target label vectors (y_true, y_pred), 0/1 vectors of width NTargets:
\* both all-zero, an exact match, a partial overlap, disjoint, one all-zero
LabelVecPairs ==
  {<<(<<0, 0>>), (<<0, 0>>)>>, <<(<<0, 1>>), (<<0, 1>>)>>, <<(<<1, 1>>), (<<0, 1>>)>>,
   <<(<<1, 0>>), (<<0, 1>>)>>, <<(<<0, 0>>), (<<1, 0>>)>>}
\* multi-target regression vectors (y, prediction) of width NTargets
RegVecPairs ==
  {<<(<<1, 1>>), (<<1, 1>>)>>, <<(<<2, 0>>), (<<0, 0>>)>>, <<(<<0, 1>>), (<<3, 2>>)>>}

\* ----------------------------------------------------------------- values
NoneV == <<>>
Some(x) == <<x>>

RECURSIVE Gcd(_, _)
Gcd(a, b) == IF b = 0 THEN a ELSE Gcd(b, a % b)
Abs(x) == IF x < 0 THEN -x ELSE x

\* a rational in lowest terms, d > 0
Rat(n, d) ==
  LET g == Gcd(Abs(n), Abs(d))
      s == IF d < 0 THEN -1 ELSE 1
  IN [n |-> s * (n \div g), d |-> s * (d \div g)]
RInt(i) == [n |-> i, d |-> 1]
RAdd(a, b) == Rat(a.n * b.d + b.n * a.d, a.d * b.d)
RMul(a, b) == Rat(a.n * b.n, a.d * b.d)

RECURSIVE RSum(_)
RSum(s) == IF s = <<>> THEN RInt(0) ELSE RAdd(Head(s), RSum(Tail(s)))

RECURSIVE ISum(_)
ISum(s) == IF s = <<>> THEN 0 ELSE Head(s) + ISum(Tail(s))

\* results of a query
Num(r) == [kind |-> "num", n |-> r.n, d |-> r.d]
Raised(e) == [kind |-> e, n |-> 0, d |-> 1]
Zero == Num(RInt(0))
IsNum(r) == r.kind = "num"
AsRat(r) == [n |-> r.n, d |-> r.d]

\* Python's a / b on plain numbers: raises ZeroDivisionError on b = 0
PyDiv(a, b) ==
  IF b.n = 0 THEN Raised("ZeroDivisionError") ELSE Num(Rat(a.n * b.d, a.d * b.n))
\* numpy.float64 / 0: a warning and inf or nan, never an exception
NpDiv(a, b) ==
  IF b.n # 0 THEN Num(Rat(a.n * b.d, a.d * b.n))
  ELSE IF a.n = 0 THEN Raised("nan") ELSE Raised("inf")

\* ------------------------------------------------------------- FastBuffer
\* A bounded FIFO, oldest element first.
FastBuffer(max_size) == <<>>
\* add_element's return value: the evicted element in a list, or None
BufEvicted(buf, max_size) ==
  IF Len(buf) < max_size THEN NoneV ELSE Some(Head(buf))
BufAdd(buf, max_size, e) ==
  IF Len(buf) < max_size THEN Append(buf, e) ELSE Append(Tail(buf), e)
get_current_size(buf) == Len(buf)
get_queue(buf) == buf
\* the oldest retained element: the one the next add_element evicts
peek(buf) == Head(buf)

\* -------------------------------------------------------- ConfusionMatrix
ConfusionMatrix(n) == [i \in 0 .. n - 1 |-> [j \in 0 .. n - 1 |-> 0]]
InRange(cm, i, j) == i \in DOMAIN cm /\ j \in DOMAIN cm
\* update: grid[i][j] += weight (the caller checks InRange first: out of
\* range fails with IndexOutOfRangeError)
CMUpdate(cm, i, j, weight) == [cm EXCEPT ![i][j] = @ + weight]
\* remove(i, j, weight=1): grid[i][j] -= weight
CMRemove(cm, i, j, weight) == [cm EXCEPT ![i][j] = @ - weight]
RECURSIVE DiagFrom(_, _)
DiagFrom(cm, i) == IF i \notin DOMAIN cm THEN 0 ELSE cm[i][i] + DiagFrom(cm, i + 1)
get_sum_main_diagonal(cm) == DiagFrom(cm, 0)
RECURSIVE RowFrom(_, _)
RowFrom(row, j) == IF j \notin DOMAIN row THEN 0 ELSE row[j] + RowFrom(row, j + 1)
RECURSIVE TotalFrom(_, _)
TotalFrom(cm, i) ==
  IF i \notin DOMAIN cm THEN 0 ELSE RowFrom(cm[i], 0) + TotalFrom(cm, i + 1)
get_total_sum(cm) == TotalFrom(cm, 0)
\* restart(n): reallocate to all-zero
CMRestart(n) == ConfusionMatrix(n)

\* the configured prediction-list size (SharedData.rec_size)
RecSize == 2

\* ------------------------------------------------------------ weights
\* float('nan') and float('inf') among the integer weights of the model
NanWeight == 98
InfWeight == 99
\* weights check_weights rejects: negative, not a number, infinite
InvalidWeights == {-1, NanWeight, InfWeight}
\* check_weights(weight): TRUE when it returns, FALSE when it raises
check_weights(weight) == weight >= 0 /\ weight # NanWeight /\ weight # InfWeight

\* -------------------------------------------- classification: rank lookup
\* np.where(y_pred == y_true)[0]: the 0-based positions of y_true in y_pred
RankSet(y_true, y_pred) == {i \in 1 .. Len(y_pred) : y_pred[i] = y_true}
\* `rank.size == 1`: the relevant item exists (exactly once)
Relevant(y_true, y_pred) == Cardinality(RankSet(y_true, y_pred)) = 1
Rank0(y_true, y_pred) == (CHOOSE i \in RankSet(y_true, y_pred) : TRUE) - 1
\* 1 / (rank[0] + 1)
ReciprocalRank(y_true, y_pred) == Rat(1, Rank0(y_true, y_pred) + 1)
\* the column tallied, and (windowed) the label pushed into `predictions`
TalliedPredClamped(y_true, y_pred) ==
  IF Relevant(y_true, y_pred) THEN y_true
  ELSE IF y_pred[1] > NTargets - 1 THEN NTargets - 1 ELSE y_pred[1]
TalliedPred(y_true, y_pred) == IF Relevant(y_true, y_pred) THEN y_true ELSE y_pred[1]

VARIABLES
  kind,      \* which accumulator class this behaviour exercises
  clf,       \* ClassificationMeasurements
  wclf,      \* WindowClassificationMeasurements
  mtc,       \* MultiTargetClassificationMeasurements
  wmtc,      \* WindowMultiTargetClassificationMeasurements
  reg,       \* RegressionMeasurements
  wreg,      \* WindowRegressionMeasurements
  mtr,       \* MultiTargetRegressionMeasurements
  wmtr,      \* WindowMultiTargetRegressionMeasurements
  calls,     \* add_result calls made so far (successful or not)
  succ,      \* successful add_result calls since construction or reset
  op,        \* the last operation: "init", "add_result" or "reset"
  outcome,   \* how it ended: "ok" or the error raised
  hist,      \* windowed kinds: the observations of the last window_size
             \* successful calls since construction or reset, oldest first;
             \* whole-stream multi-target classification: those of every
             \* successful call since construction or reset
  ref,       \* whole-stream kinds: the totals over every successful call
             \* since construction or reset, summed observation by observation
  shadow,    \* an accumulator of the same class and configuration, constructed
             \* when this one was last constructed or reset, given the same calls
  rtm,       \* RunningTimeMeasurements
  now,       \* the value timer() returned last
  arg,       \* the arguments of the last constructor call (class, window_size),
             \* update_time_measurements call (increment) or, where they are
             \* recorded, add_result call (y_true, y_pred, weight)
  result     \* what the metric queries returned, when they were the last
             \* operation; None otherwise

accs == <<clf, wclf, mtc, wmtc, reg, wreg, mtr, wmtr>>
vars == <<kind, accs, calls, succ, op, outcome, hist, ref, shadow, rtm, now, arg, result>>

\* ------------------------------------------- ClassificationMeasurements
\* __init__(targets=[0, 1])
ClfInit ==
  [confusion_matrix |-> ConfusionMatrix(NTargets),
   rranks |-> <<>>,
   last_true_label |-> NoneV,
   last_prediction |-> NoneV,
   sample_count |-> 0,
   correct_no_change |-> 0]

\* reset(): every field __init__ sets except rranks
ClfReset(s) ==
  [s EXCEPT !.last_true_label = NoneV,
            !.last_prediction = NoneV,
            !.sample_count = 0,
            !.correct_no_change = 0,
            !.confusion_matrix = CMRestart(NTargets)]

\* the no-change increment of add_result
ClfNoChange(s, y_true, weight) ==
  IF s.last_true_label = Some(y_true) THEN s.correct_no_change + weight
  ELSE s.correct_no_change

\* the sample_count after a tallied result
ClfCountWeighted(s, weight) == s.sample_count + weight
ClfCount(s, weight) == s.sample_count + 1

\* the state add_result leaves when check_weights raises (line 76): nothing
\* was executed before it
ClfAtCheckWeights(s, y_true) == s

\* add_result(y_true, y_pred, weight): [s |-> the state left, out |-> outcome]
ClfAddResult(s, y_true, y_pred, weight) ==
  LET rel == Relevant(y_true, y_pred)
      s1 == IF rel THEN [s EXCEPT !.rranks = Append(@, ReciprocalRank(y_true, y_pred))]
            ELSE s
  IN IF ~check_weights(weight)
     THEN [s |-> ClfAtCheckWeights(s, y_true), out |-> "InvalidWeightError"]
     ELSE IF ~rel /\ y_pred = <<>>
     THEN [s |-> s1, out |-> "IndexError"]
     ELSE IF ~InRange(s.confusion_matrix, y_true, TalliedPred(y_true, y_pred))
     THEN [s |-> s1, out |-> "IndexOutOfRangeError"]
     ELSE [s |-> [s1 EXCEPT
                    !.confusion_matrix =
                       CMUpdate(@, y_true, TalliedPred(y_true, y_pred), weight),
                    !.sample_count = ClfCount(s, weight),
                    !.correct_no_change = ClfNoChange(s, y_true, weight),
                    !.last_true_label = Some(y_true),
                    !.last_prediction = Some(y_pred)],
           out |-> "ok"]

ClfGetAccuracy(s) ==
  LET r == PyDiv(RInt(get_sum_main_diagonal(s.confusion_matrix)), RInt(s.sample_count))
  IN IF r.kind = "ZeroDivisionError" THEN Zero ELSE r
ClfGetRecall(s) == ClfGetAccuracy(s)
ClfGetPrecision(s) == PyDiv(AsRat(ClfGetAccuracy(s)), RInt(RecSize))
\* the arithmetic mean of precision and recall
F1Mean(precision, recall) ==
  Num(RMul(Rat(1, 2), RAdd(AsRat(precision), AsRat(recall))))
\* precision and recall are numbers here (RecSize > 0)
F1(precision, recall) ==
  IF RAdd(AsRat(recall), AsRat(precision)).n = 0 THEN Zero
  ELSE PyDiv(RMul(RInt(2), RMul(AsRat(precision), AsRat(recall))),
             RAdd(AsRat(precision), AsRat(recall)))
ClfGetF1(s) == F1(ClfGetPrecision(s), ClfGetRecall(s))
\* sum(rranks) is the int 0 for an empty list and a numpy.float64 otherwise
ClfGetMrr(s) ==
  IF s.rranks = <<>> THEN PyDiv(RInt(0), RInt(s.sample_count))
  ELSE NpDiv(RSum(s.rranks), RInt(s.sample_count))
ClfMetrics(s) ==
  [accuracy |-> ClfGetAccuracy(s), precision |-> ClfGetPrecision(s),
   recall |-> ClfGetRecall(s), f1 |-> ClfGetF1(s), mrr |-> ClfGetMrr(s)]

\* -------------------------------------- WindowClassificationMeasurements
\* __init__(targets=[0, 1], window_size=WindowSize)
WClfInit ==
  [confusion_matrix |-> ConfusionMatrix(NTargets),
   rranks |-> FastBuffer(WindowSize),
   true_labels |-> FastBuffer(WindowSize),
   predictions |-> FastBuffer(WindowSize),
   temp |-> 0,
   last_prediction |-> NoneV,
   last_true_label |-> NoneV,
   correct_no_change |-> 0,
   correct_no_change_correction |-> FastBuffer(WindowSize)]

WClfReset(s) == WClfInit

\* the weight add_result passes to confusion_matrix.remove: none, so the
\* default weight of remove
RemoveWeight(weight_of_evicted) == 1
\* the correction term add_result stores for a counted step
NoChangeCorrection(weight) == -1

\* lines 289-292: the eviction, once both buffers returned an element
WClfEvict(s, old_true, old_predict) ==
  [s EXCEPT !.temp = @ + 1,
            !.confusion_matrix = CMRemove(@, old_true, old_predict, RemoveWeight(0)),
            !.correct_no_change = @ + peek(s.correct_no_change_correction)]

\* lines 295-299: the no-change counter and its correction buffer
WClfNoChange(s, y_true, weight) ==
  IF s.last_true_label = Some(y_true) /\ s.last_true_label # NoneV
  THEN [s EXCEPT !.correct_no_change = @ + weight,
                 !.correct_no_change_correction =
                    BufAdd(@, WindowSize, NoChangeCorrection(weight))]
  ELSE [s EXCEPT !.correct_no_change_correction = BufAdd(@, WindowSize, 0)]

\* the state add_result leaves when check_weights raises (line 274): the
\* push into true_labels is the statement after it (line 275)
WClfPushedBeforeCheck(s, y_true) ==
  [s EXCEPT !.true_labels = BufAdd(@, WindowSize, y_true)]
WClfAtCheckWeights(s, y_true) == s

\* add_result(y_true, y_pred, weight): [s |-> the state left, out |-> outcome]
WClfAddResult(s, y_true, y_pred, weight) ==
  LET rel == Relevant(y_true, y_pred)
      old_true == BufEvicted(s.true_labels, WindowSize)
      rr == IF rel THEN ReciprocalRank(y_true, y_pred) ELSE RInt(0)
      \* lines 275-283: true_labels and rranks are pushed before the tally
      s1 == [s EXCEPT !.true_labels = BufAdd(@, WindowSize, y_true),
                      !.rranks = BufAdd(@, WindowSize, rr)]
      old_predict == BufEvicted(s.predictions, WindowSize)
      p == TalliedPred(y_true, y_pred)
      s2 == [s1 EXCEPT !.confusion_matrix = CMUpdate(@, y_true, p, weight),
                       !.predictions = BufAdd(@, WindowSize, p)]
      evicts == old_true # NoneV /\ old_predict # NoneV
      s3 == IF evicts THEN WClfEvict(s2, old_true[1], old_predict[1]) ELSE s2
      s4 == WClfNoChange(s3, y_true, weight)
  IN IF ~check_weights(weight)
     THEN [s |-> WClfAtCheckWeights(s, y_true), out |-> "InvalidWeightError"]
     ELSE IF ~rel /\ y_pred = <<>>
     THEN [s |-> s1, out |-> "IndexError"]
     ELSE IF ~InRange(s.confusion_matrix, y_true, p)
     THEN [s |-> s1, out |-> "IndexOutOfRangeError"]
     ELSE IF evicts /\ ~InRange(s.confusion_matrix, old_true[1], old_predict[1])
     THEN [s |-> [s2 EXCEPT !.temp = @ + 1], out |-> "IndexOutOfRangeError"]
     ELSE [s |-> [s4 EXCEPT !.last_true_label = Some(y_true),
                            !.last_prediction = Some(y_pred)],
           out |-> "ok"]

WClfSampleCount(s) == get_current_size(s.true_labels)
WClfGetAccuracy(s) ==
  LET r == PyDiv(RInt(get_sum_main_diagonal(s.confusion_matrix)),
                 RInt(get_current_size(s.true_labels)))
  IN IF r.kind = "ZeroDivisionError" THEN Zero ELSE r
WClfGetRecall(s) == WClfGetAccuracy(s)
WClfGetPrecision(s) == PyDiv(AsRat(WClfGetAccuracy(s)), RInt(RecSize))
WClfGetF1(s) == F1(WClfGetPrecision(s), WClfGetRecall(s))
\* sum(queue) is the int 0 for an empty queue
WClfGetMrr(s) ==
  IF get_queue(s.rranks) = <<>>
  THEN PyDiv(RInt(0), RInt(get_current_size(s.rranks)))
  ELSE NpDiv(RSum(get_queue(s.rranks)), RInt(get_current_size(s.rranks)))
WClfMetrics(s) ==
  [accuracy |-> WClfGetAccuracy(s), precision |-> WClfGetPrecision(s),
   recall |-> WClfGetRecall(s), f1 |-> WClfGetF1(s), mrr |-> WClfGetMrr(s)]

\* ---------------------------------------------------- MOLConfusionMatrix
\* one 2 x 2 tally per target
MOLConfusionMatrix(n) ==
  [i \in 0 .. n - 1 |-> [a \in 0 .. 1 |-> [b \in 0 .. 1 |-> 0]]]
\* update(target, true, pred): the cell of that target's tally += 1
MOLUpdate(m, target, true, pred) == [m EXCEPT ![target][true][pred] = @ + 1]
\* remove called with two coordinates of the three update takes: no cell
\* is identified, none is decremented
MOLRemove2(m, a, b) == m
RECURSIVE MOLDiagFrom(_, _)
MOLDiagFrom(m, i) ==
  IF i \notin DOMAIN m THEN 0 ELSE m[i][0][0] + m[i][1][1] + MOLDiagFrom(m, i + 1)
MOLSumMainDiagonal(m) == MOLDiagFrom(m, 0)
RECURSIVE MOLTotalFrom(_, _)
MOLTotalFrom(m, i) ==
  IF i \notin DOMAIN m THEN 0
  ELSE m[i][0][0] + m[i][0][1] + m[i][1][0] + m[i][1][1] + MOLTotalFrom(m, i + 1)
MOLTotalSum(m) == MOLTotalFrom(m, 0)

\* ------------------------------------------------ multi-target arithmetic
\* sum((y_true * y_pred) > 0)
Inter(y_true, y_pred) == Cardinality({i \in 1 .. Len(y_true) : y_true[i] * y_pred[i] > 0})
\* sum((y_true + y_pred) > 0)
Union(y_true, y_pred) == Cardinality({i \in 1 .. Len(y_true) : y_true[i] + y_pred[i] > 0})
\* the amount one observation adds to the Jaccard sum
JTermUnionOnly(y_true, y_pred) ==
  IF Union(y_true, y_pred) > 0
  THEN Rat(Inter(y_true, y_pred), Union(y_true, y_pred))
  ELSE RInt(0)
JTerm(y_true, y_pred) ==
  IF Union(y_true, y_pred) > 0
  THEN Rat(Inter(y_true, y_pred), Union(y_true, y_pred))
  ELSE IF ISum(y_true) = 0 THEN RInt(1) ELSE RInt(0)
AllEqual(y_true, y_pred) == \A i \in 1 .. Len(y_true) : y_true[i] = y_pred[i]

\* for i in range(m): confusion_matrix.update(i, y_true[i], y_pred[i])
RECURSIVE MOLUpdateAll(_, _, _, _)
MOLUpdateAll(m, y_true, y_pred, i) ==
  IF i > Len(y_true) THEN m
  ELSE MOLUpdateAll(MOLUpdate(m, i - 1, y_true[i], y_pred[i]), y_true, y_pred, i + 1)
\* for i in range(m): confusion_matrix.remove(old_true[0][i], old_predict[0][i])
RECURSIVE MOLRemoveAll(_, _, _, _)
MOLRemoveAll(m, old_true, old_predict, i) ==
  IF i > Len(old_true) THEN m
  ELSE MOLRemoveAll(MOLRemove2(m, old_true[i], old_predict[i]), old_true, old_predict, i + 1)

\* ------------------------------- MultiTargetClassificationMeasurements
\* __init__(targets=[0, 1])
MtcInit ==
  [n_targets |-> NTargets,
   confusion_matrix |-> MOLConfusionMatrix(NTargets),
   last_true_label |-> NoneV,
   last_prediction |-> NoneV,
   sample_count |-> 0,
   exact_match_count |-> 0,
   j_sum |-> RInt(0)]
MtcReset(s) == MtcInit
MtcCountTwice(s) == s.sample_count + 2
MtcCount(s) == s.sample_count + 1
MtcAddResult(s, y_true, y_pred) ==
  [s EXCEPT !.last_true_label = Some(y_true),
            !.last_prediction = Some(y_pred),
            !.n_targets = Len(y_true),
            !.confusion_matrix = MOLUpdateAll(@, y_true, y_pred, 1),
            !.exact_match_count = IF AllEqual(y_true, y_pred) THEN @ + 1 ELSE @,
            !.j_sum = RAdd(@, JTerm(y_true, y_pred)),
            !.sample_count = MtcCount(s)]
\* the state add_result leaves when y_pred is shorter than y_true: lines
\* 469-477 ran, the loop tallied the targets y_pred has, and y_pred[i] raised
\* IndexError at the first target it lacks
MtcAtIndexError(s, y_true, y_pred) ==
  [s EXCEPT !.last_true_label = Some(y_true),
            !.last_prediction = Some(y_pred),
            !.n_targets = Len(y_true),
            !.confusion_matrix =
               MOLUpdateAll(@, SubSeq(y_true, 1, Len(y_pred)), y_pred, 1)]
MtcGetHammingScore(s) ==
  LET r == PyDiv(RInt(MOLSumMainDiagonal(s.confusion_matrix)),
                 RInt(s.sample_count * s.n_targets))
  IN IF r.kind = "ZeroDivisionError" THEN Zero ELSE r
MtcGetExactMatch(s) == PyDiv(RInt(s.exact_match_count), RInt(s.sample_count))
\* j_sum is the int 0 until the first result is added
MtcGetJIndex(s) == PyDiv(s.j_sum, RInt(s.sample_count))
MtcMetrics(s) ==
  [hamming_score |-> MtcGetHammingScore(s), exact_match |-> MtcGetExactMatch(s),
   j_index |-> MtcGetJIndex(s)]

\* ------------------------------------------- the pure aggregate functions
RECURSIVE MatchCount(_, _)
MatchCount(true_labels, predicts) ==
  IF true_labels = <<>> THEN 0
  ELSE Cardinality({i \in 1 .. Len(Head(true_labels)) : Head(true_labels)[i] = Head(predicts)[i]})
       + MatchCount(Tail(true_labels), Tail(predicts))
RECURSIVE JSum(_, _)
JSum(true_labels, predicts) ==
  IF true_labels = <<>> THEN RInt(0)
  ELSE RAdd(JTerm(Head(true_labels), Head(predicts)),
            JSum(Tail(true_labels), Tail(predicts)))
RECURSIVE ExactRows(_, _)
ExactRows(true_labels, predicts) ==
  IF true_labels = <<>> THEN 0
  ELSE (IF AllEqual(Head(true_labels), Head(predicts)) THEN 1 ELSE 0)
       + ExactRows(Tail(true_labels), Tail(predicts))
\* `N, L = true_labels.shape` fails to unpack the shape (0,) of an empty list
hamming_score_per_row(true_labels, predicts) ==
  IF true_labels = <<>> THEN Raised("ValueError")
  ELSE Num(Rat(MatchCount(true_labels, predicts), Len(true_labels)))
hamming_score(true_labels, predicts) ==
  IF true_labels = <<>> THEN Raised("ValueError")
  ELSE Num(Rat(MatchCount(true_labels, predicts),
               Len(true_labels) * Len(true_labels[1])))
j_index(true_labels, predicts) ==
  IF true_labels = <<>> THEN Raised("ValueError")
  ELSE Num(RMul(JSum(true_labels, predicts), Rat(1, Len(true_labels))))
exact_match(true_labels, predicts) ==
  IF true_labels = <<>> THEN Raised("ValueError")
  ELSE Num(Rat(ExactRows(true_labels, predicts), Len(true_labels)))

\* -------------------------- WindowMultiTargetClassificationMeasurements
\* __init__(targets=[0, 1], window_size=WindowSize)
WMtcInit ==
  [n_targets |-> NTargets,
   confusion_matrix |-> MOLConfusionMatrix(NTargets),
   last_true_label |-> NoneV,
   last_prediction |-> NoneV,
   exact_match_count |-> 0,
   j_sum |-> RInt(0),
   true_labels |-> FastBuffer(WindowSize),
   predictions |-> FastBuffer(WindowSize)]
WMtcReset(s) == WMtcInit
\* lines 668-670: the eviction
WMtcEvict(m, old_true, old_predict) == MOLRemoveAll(m, old_true, old_predict, 1)
WMtcAddResult(s, y_true, y_pred) ==
  LET old_true == BufEvicted(s.true_labels, WindowSize)
      old_predict == BufEvicted(s.predictions, WindowSize)
      updated == MOLUpdateAll(s.confusion_matrix, y_true, y_pred, 1)
  IN [s EXCEPT !.last_true_label = Some(y_true),
               !.last_prediction = Some(y_pred),
               !.n_targets = Len(y_true),
               !.true_labels = BufAdd(@, WindowSize, y_true),
               !.predictions = BufAdd(@, WindowSize, y_pred),
               !.confusion_matrix =
                  IF old_true # NoneV /\ old_predict # NoneV
                  THEN WMtcEvict(updated, old_true[1], old_predict[1])
                  ELSE updated]
\* the width the two FastComplexBuffers are constructed with: n_targets
BufferWidth == NTargets
\* FastComplexBuffer.add_element(v): TRUE when v has the configured width,
\* FALSE when ShapeMismatchError is raised
ShapeMatches(width, v) == Len(v) = width
\* the state add_result leaves when true_labels.add_element raises (line
\* 666): lines 654-664 ran, nothing was pushed
WMtcStoredAnyway(s, y_true, y_pred) ==
  [s EXCEPT !.last_true_label = Some(y_true),
            !.last_prediction = Some(y_pred),
            !.n_targets = Len(y_true),
            !.confusion_matrix = MOLUpdateAll(@, y_true, y_pred, 1),
            !.true_labels = BufAdd(@, WindowSize, y_true),
            !.predictions = BufAdd(@, WindowSize, y_pred)]
WMtcAtShapeMismatch(s, y_true, y_pred) ==
  [s EXCEPT !.last_true_label = Some(y_true),
            !.last_prediction = Some(y_pred),
            !.n_targets = Len(y_true),
            !.confusion_matrix = MOLUpdateAll(@, y_true, y_pred, 1)]
WMtcSampleCount(s) == get_current_size(s.true_labels)
WMtcGetTotalSum(s) == MOLTotalSum(s.confusion_matrix)
\* the three metrics read from the running totals
WMtcMetricsFromTotals(s) ==
  [hamming_score |-> PyDiv(RInt(MOLSumMainDiagonal(s.confusion_matrix)),
                           RInt(get_current_size(s.true_labels) * s.n_targets)),
   exact_match |-> PyDiv(RInt(s.exact_match_count), RInt(get_current_size(s.true_labels))),
   j_index |-> PyDiv(s.j_sum, RInt(get_current_size(s.true_labels)))]
WMtcMetrics(s) ==
  [hamming_score |-> hamming_score(get_queue(s.true_labels), get_queue(s.predictions)),
   exact_match |-> exact_match(get_queue(s.true_labels), get_queue(s.predictions)),
   j_index |-> j_index(get_queue(s.true_labels), get_queue(s.predictions))]

\* ---------------------------------------------- RegressionMeasurements
Square(y_true, y_pred) == (y_true - y_pred) * (y_true - y_pred)
Absolute(y_true, y_pred) == Abs(y_true - y_pred)
RegInit ==
  [total_square_error |-> 0,
   average_error |-> 0,
   sample_count |-> 0,
   last_true_label |-> NoneV,
   last_prediction |-> NoneV]
RegReset(s) == RegInit
RegCount(s) == s.sample_count + 1
RegAddResult(s, y_true, y_pred) ==
  [s EXCEPT !.last_true_label = Some(y_true),
            !.last_prediction = Some(y_pred),
            !.total_square_error = @ + Square(y_true, y_pred),
            !.average_error = @ + Absolute(y_true, y_pred),
            !.sample_count = RegCount(s)]
\* `if sample_count == 0: return 0.0 else: return total / sample_count`
UnguardedMean(total, sample_count) == PyDiv(RInt(total), RInt(sample_count))
GuardedMean(total, sample_count) ==
  IF sample_count = 0 THEN Zero ELSE PyDiv(RInt(total), RInt(sample_count))
RegMetrics(s) ==
  [mean_square_error |-> GuardedMean(s.total_square_error, s.sample_count),
   average_error |-> GuardedMean(s.average_error, s.sample_count)]

\* ---------------------------------------- WindowRegressionMeasurements
\* __init__(window_size=WindowSize)
WRegInit ==
  [total_square_error |-> 0,
   average_error |-> 0,
   last_true_label |-> NoneV,
   last_prediction |-> NoneV,
   total_square_error_correction |-> FastBuffer(WindowSize),
   average_error_correction |-> FastBuffer(WindowSize)]
WRegReset(s) == WRegInit
\* the correction terms pushed for a step
SquareCorrectionUnsigned(y_true, y_pred) == Square(y_true, y_pred)
SquareCorrection(y_true, y_pred) == -1 * Square(y_true, y_pred)
AverageCorrection(y_true, y_pred) == -1 * Absolute(y_true, y_pred)
\* lines 881-883: both evicted corrections are added to the sums
WRegEvict(s, old_square, old_average) ==
  IF old_square # NoneV /\ old_average # NoneV
  THEN [s EXCEPT !.total_square_error = @ + old_square[1],
                 !.average_error = @ + old_average[1]]
  ELSE s
WRegAddResult(s, y_true, y_pred) ==
  LET old_square == BufEvicted(s.total_square_error_correction, WindowSize)
      old_average == BufEvicted(s.average_error_correction, WindowSize)
      s1 == [s EXCEPT
               !.last_true_label = Some(y_true),
               !.last_prediction = Some(y_pred),
               !.total_square_error = @ + Square(y_true, y_pred),
               !.average_error = @ + Absolute(y_true, y_pred),
               !.total_square_error_correction =
                  BufAdd(@, WindowSize, SquareCorrection(y_true, y_pred)),
               !.average_error_correction =
                  BufAdd(@, WindowSize, AverageCorrection(y_true, y_pred))]
  IN WRegEvict(s1, old_square, old_average)
WRegSampleCount(s) == get_current_size(s.total_square_error_correction)
WRegGetMeanSquareError(s) == GuardedMean(s.total_square_error, WRegSampleCount(s))
WRegGetAverageError(s) == GuardedMean(s.average_error, WRegSampleCount(s))
WRegMetrics(s) ==
  [mean_square_error |-> WRegGetMeanSquareError(s),
   average_error |-> WRegGetAverageError(s)]

\* ------------------------------------ MultiTargetRegressionMeasurements
\* element-wise vector arithmetic; the scalar 0.0 the sums start from is
\* the zero vector (0.0 + v = v)
ZeroVec == [i \in 1 .. NTargets |-> 0]
VecAdd(u, v) == [i \in 1 .. Len(u) |-> u[i] + v[i]]
VecNeg(u) == [i \in 1 .. Len(u) |-> -1 * u[i]]
VecSquare(y, prediction) == [i \in 1 .. Len(y) |-> Square(y[i], prediction[i])]
VecAbsolute(y, prediction) == [i \in 1 .. Len(y) |-> Absolute(y[i], prediction[i])]
MtrInit ==
  [n_targets |-> 0,
   total_square_error |-> ZeroVec,
   average_error |-> ZeroVec,
   sample_count |-> 0,
   last_true_label |-> NoneV,
   last_prediction |-> NoneV]
MtrReset(s) == MtrInit
MtrCount(s) == s.sample_count + 1
MtrAddResult(s, y, prediction) ==
  [s EXCEPT !.last_true_label = Some(y),
            !.last_prediction = Some(prediction),
            !.n_targets = Len(y),
            !.total_square_error = VecAdd(@, VecSquare(y, prediction)),
            !.average_error = VecAdd(@, VecAbsolute(y, prediction)),
            !.sample_count = MtrCount(s)]
\* np.sum(total / sample_count) / n_targets, 0.0 when sample_count == 0
AverageOfMeans(total, sample_count, n_targets) ==
  IF sample_count = 0 THEN Zero
  ELSE NpDiv(Rat(ISum(total), sample_count), RInt(n_targets))
\* np.sum(np.sqrt(total / sample_count)) / n_targets, 0.0 when sample_count
\* == 0: kept as the means whose roots are summed
AverageOfRoots(total, sample_count, n_targets) ==
  IF sample_count = 0 THEN Zero
  ELSE [kind |-> "rootsum",
        roots_of |-> [i \in 1 .. Len(total) |-> Rat(total[i], sample_count)],
        over |-> n_targets]
MtrMetrics(s) ==
  [average_mean_square_error |->
     AverageOfMeans(s.total_square_error, s.sample_count, s.n_targets),
   average_absolute_error |->
     AverageOfMeans(s.average_error, s.sample_count, s.n_targets),
   average_root_mean_square_error |->
     AverageOfRoots(s.total_square_error, s.sample_count, s.n_targets)]

\* ------------------------------ WindowMultiTargetRegressionMeasurements
\* __init__(window_size=WindowSize)
WMtrInit ==
  [n_targets |-> 0,
   total_square_error |-> ZeroVec,
   average_error |-> ZeroVec,
   last_true_label |-> NoneV,
   last_prediction |-> NoneV,
   total_square_error_correction |-> FastBuffer(WindowSize),
   average_error_correction |-> FastBuffer(WindowSize)]
\* reset(): every field __init__ sets except n_targets
WMtrReset(s) == [WMtrInit EXCEPT !.n_targets = s.n_targets]
WMtrAddResult(s, y, prediction) ==
  LET old_square == BufEvicted(s.total_square_error_correction, WindowSize)
      old_average == BufEvicted(s.average_error_correction, WindowSize)
      s1 == [s EXCEPT
               !.last_true_label = Some(y),
               !.last_prediction = Some(prediction),
               !.n_targets = Len(y),
               !.total_square_error = VecAdd(@, VecSquare(y, prediction)),
               !.average_error = VecAdd(@, VecAbsolute(y, prediction)),
               !.total_square_error_correction =
                  BufAdd(@, WindowSize, VecNeg(VecSquare(y, prediction))),
               !.average_error_correction =
                  BufAdd(@, WindowSize, VecNeg(VecAbsolute(y, prediction)))]
  IN IF old_square # NoneV /\ old_average # NoneV
     THEN [s1 EXCEPT !.total_square_error = VecAdd(@, old_square[1]),
                     !.average_error = VecAdd(@, old_average[1])]
     ELSE s1
WMtrSampleCount(s) == get_current_size(s.total_square_error_correction)
WMtrMetrics(s) ==
  [average_mean_square_error |->
     AverageOfMeans(s.total_square_error, WMtrSampleCount(s), s.n_targets),
   average_absolute_error |->
     AverageOfMeans(s.average_error, WMtrSampleCount(s), s.n_targets),
   average_root_mean_square_error |->
     AverageOfRoots(s.total_square_error, WMtrSampleCount(s), s.n_targets)]

\* ------------------------------------------------ RunningTimeMeasurements
\* __init__()
RtmInit ==
  [training_start |-> NoneV,
   testing_start |-> NoneV,
   training_time |-> 0,
   testing_time |-> 0,
   sample_count |-> 0,
   total_time |-> 0]
\* reset(): the totals and the counter; the two starts are kept
RtmReset(s) ==
  [s EXCEPT !.training_time = 0,
            !.testing_time = 0,
            !.sample_count = 0,
            !.total_time = 0]
\* compute_training_time_begin(), timer() returning t
RtmBeginBoth(s, t) == [s EXCEPT !.training_start = Some(t), !.testing_start = Some(t)]
RtmTrainingBegin(s, t) == [s EXCEPT !.training_start = Some(t)]
\* compute_training_time_end(), timer() returning t: [s, out]; the
\* subtraction of None raises before anything is assigned
RtmTrainingEnd(s, t) ==
  IF s.training_start = NoneV THEN [s |-> s, out |-> "TypeError"]
  ELSE [s |-> [s EXCEPT !.training_time = @ + (t - s.training_start[1])], out |-> "ok"]
\* compute_testing_time_begin(), timer() returning t
RtmTestingBegin(s, t) == [s EXCEPT !.testing_start = Some(t)]
\* compute_testing_time_end(), timer() returning t: [s, out]
RtmTestingEnd(s, t) ==
  IF s.testing_start = NoneV THEN [s |-> s, out |-> "TypeError"]
  ELSE [s |-> [s EXCEPT !.testing_time = @ + (t - s.testing_start[1])], out |-> "ok"]
\* the amount update_time_measurements adds to _sample_count
RtmIncrementAsGiven(increment) == increment
RtmIncrement(increment) == IF increment > 0 THEN increment ELSE 1
\* update_time_measurements(increment)
RtmUpdate(s, increment) ==
  [s EXCEPT !.sample_count = @ + RtmIncrement(increment),
            !.total_time = s.training_time + s.testing_time]

\* ------------------------------------------------- the reference history
\* The observation a successful classification call contributes, stated
\* from the contract: the true label, the label it is tallied against (the
\* true label when it appears in the list, else the top-ranked prediction),
\* the weight, the reciprocal rank, and whether the true label repeats the
\* one of the step before.
Appears(y_true, y_pred) == \E i \in 1 .. Len(y_pred) : y_pred[i] = y_true
FirstAt(y_true, y_pred) ==
  CHOOSE i \in 1 .. Len(y_pred) :
    y_pred[i] = y_true /\ \A j \in 1 .. i - 1 : y_pred[j] # y_true
ClfObs(y_true, y_pred, weight, prev) ==
  [t |-> y_true,
   p |-> IF Appears(y_true, y_pred) THEN y_true ELSE y_pred[1],
   w |-> weight,
   rr |-> IF Appears(y_true, y_pred) THEN Rat(1, FirstAt(y_true, y_pred)) ELSE RInt(0),
   nochange |-> prev = Some(y_true)]

\* the last n elements of a sequence
LastN(s, n) == IF Len(s) <= n THEN s ELSE SubSeq(s, Len(s) - n + 1, Len(s))

\* the weight of the observations of `h` tallied in cell (i, j)
RECURSIVE CellWeight(_, _, _)
CellWeight(h, i, j) ==
  IF h = <<>> THEN 0
  ELSE (IF Head(h).t = i /\ Head(h).p = j THEN Head(h).w ELSE 0)
       + CellWeight(Tail(h), i, j)
\* the matrix built from scratch over the observations of `h`
FromScratch(h) ==
  [i \in 0 .. NTargets - 1 |-> [j \in 0 .. NTargets - 1 |-> CellWeight(h, i, j)]]
\* the weight of the observations of `h` that repeat the label before them
RECURSIVE NoChangeWeight(_)
NoChangeWeight(h) ==
  IF h = <<>> THEN 0
  ELSE (IF Head(h).nochange THEN Head(h).w ELSE 0) + NoChangeWeight(Tail(h))

\* whole-stream classification totals
ClfRefInit == [matrix |-> ConfusionMatrix(NTargets), n |-> 0, last |-> NoneV]
ClfRefAdd(r, o) ==
  [matrix |-> [r.matrix EXCEPT ![o.t][o.p] = @ + o.w], n |-> r.n + 1, last |-> Some(o.t)]

\* The amount one multi-target observation contributes to the Jaccard sum,
\* stated from the contract: 1 when both vectors are all-zero, otherwise
\* |positions positive in both| / |positions positive in either|.
JaccardOf(t, p) ==
  IF (\A i \in 1 .. Len(t) : t[i] = 0) /\ (\A i \in 1 .. Len(p) : p[i] = 0)
  THEN RInt(1)
  ELSE Rat(Cardinality({i \in 1 .. Len(t) : t[i] > 0 /\ p[i] > 0}),
           Cardinality({i \in 1 .. Len(t) : t[i] > 0 \/ p[i] > 0}))
\* whole-stream multi-target totals
MtcRefInit == [j |-> RInt(0)]
MtcRefAdd(r, t, p) == [j |-> RAdd(r.j, JaccardOf(t, p))]

\* ---------------------------------------------------------------- actions
Kinds == {"Clf", "WClf", "Mtc", "WMtc", "Reg", "WReg", "Mtr", "WMtr"}
Windowed == {"WClf", "WMtc", "WReg", "WMtr"}

InitOf(k) ==
  CASE k = "Clf" -> ClfInit
    [] k = "WClf" -> WClfInit
    [] k = "Mtc" -> MtcInit
    [] k = "WMtc" -> WMtcInit
    [] k = "Reg" -> RegInit
    [] k = "WReg" -> WRegInit
    [] k = "Mtr" -> MtrInit
    [] k = "WMtr" -> WMtrInit
RefInitOf(k) ==
  IF k = "Clf" THEN ClfRefInit ELSE IF k = "Mtc" THEN MtcRefInit ELSE <<>>

Init ==
  /\ kind \in Kinds
  /\ clf = ClfInit
  /\ wclf = WClfInit
  /\ mtc = MtcInit
  /\ wmtc = WMtcInit
  /\ reg = RegInit
  /\ wreg = WRegInit
  /\ mtr = MtrInit
  /\ wmtr = WMtrInit
  /\ calls = 0
  /\ succ = 0
  /\ op = "init"
  /\ outcome = "ok"
  /\ hist = <<>>
  /\ ref = RefInitOf(kind)
  /\ shadow = InitOf(kind)
  /\ rtm = RtmInit
  /\ now = 0
  /\ arg = [class |-> kind, window_size |-> WindowSize]
  /\ result = NoneV

\* what every add_result records beside the accumulator
Called(out) ==
  /\ calls' = calls + 1
  /\ op' = "add_result"
  /\ outcome' = out
  /\ succ' = IF out = "ok" THEN succ + 1 ELSE succ
  /\ result' = NoneV
  /\ UNCHANGED <<kind, rtm, now, arg>>

WasReset ==
  /\ op' = "reset"
  /\ outcome' = "ok"
  /\ succ' = 0
  /\ hist' = <<>>
  /\ ref' = RefInitOf(kind)
  /\ shadow' = InitOf(kind)
  /\ result' = NoneV
  /\ UNCHANGED <<kind, calls, rtm, now, arg>>

\* one call clf.add_result(y_true, y_pred, weight)
ClfCall(y_true, y_pred, weight) ==
  LET r == ClfAddResult(clf, y_true, y_pred, weight)
  IN /\ clf' = r.s
     /\ shadow' = ClfAddResult(shadow, y_true, y_pred, weight).s
     /\ ref' = IF r.out = "ok"
               THEN ClfRefAdd(ref, ClfObs(y_true, y_pred, weight, ref.last))
               ELSE ref
     /\ Called(r.out)
     /\ UNCHANGED <<wclf, mtc, wmtc, reg, wreg, mtr, wmtr, hist>>

Clf_add_result ==
  /\ kind = "Clf" /\ calls < MaxCalls
  /\ \E y_true \in Labels, y_pred \in PredLists, weight \in Weights :
       ClfCall(y_true, y_pred, weight)

Clf_reset ==
  /\ kind = "Clf" /\ op # "reset"
  /\ clf' = ClfReset(clf)
  /\ WasReset
  /\ UNCHANGED <<wclf, mtc, wmtc, reg, wreg, mtr, wmtr>>

\* one call wclf.add_result(y_true, y_pred, weight)
WClfCall(y_true, y_pred, weight) ==
  LET r == WClfAddResult(wclf, y_true, y_pred, weight)
      prev == IF hist = <<>> THEN NoneV ELSE Some(hist[Len(hist)].t)
  IN /\ wclf' = r.s
     /\ shadow' = WClfAddResult(shadow, y_true, y_pred, weight).s
     /\ hist' = IF r.out = "ok"
                THEN LastN(Append(hist, ClfObs(y_true, y_pred, weight, prev)),
                           WindowSize)
                ELSE hist
     /\ Called(r.out)
     /\ UNCHANGED <<clf, mtc, wmtc, reg, wreg, mtr, wmtr, ref>>

WClf_add_result ==
  /\ kind = "WClf" /\ calls < MaxCalls
  /\ \E y_true \in Labels, y_pred \in PredLists, weight \in Weights :
       WClfCall(y_true, y_pred, weight)

WClf_reset ==
  /\ kind = "WClf" /\ op # "reset"
  /\ wclf' = WClfReset(wclf)
  /\ WasReset
  /\ UNCHANGED <<clf, mtc, wmtc, reg, wreg, mtr, wmtr>>

Mtc_add_result ==
  /\ kind = "Mtc" /\ calls < MaxCalls
  /\ \E io \in LabelVecPairs :
       LET y_true == io[1]
           y_pred == io[2]
       IN /\ mtc' = MtcAddResult(mtc, y_true, y_pred)
          /\ shadow' = MtcAddResult(shadow, y_true, y_pred)
          /\ ref' = MtcRefAdd(ref, y_true, y_pred)
          /\ hist' = Append(hist, [t |-> y_true, p |-> y_pred])
          /\ Called("ok")
  /\ UNCHANGED <<clf, wclf, wmtc, reg, wreg, mtr, wmtr>>

Mtc_reset ==
  /\ kind = "Mtc" /\ op # "reset"
  /\ mtc' = MtcReset(mtc)
  /\ WasReset
  /\ UNCHANGED <<clf, wclf, wmtc, reg, wreg, mtr, wmtr>>

WMtc_add_result ==
  /\ kind = "WMtc" /\ calls < MaxCalls
  /\ \E io \in LabelVecPairs :
       LET y_true == io[1]
           y_pred == io[2]
       IN /\ wmtc' = WMtcAddResult(wmtc, y_true, y_pred)
          /\ shadow' = WMtcAddResult(shadow, y_true, y_pred)
          /\ hist' = LastN(Append(hist, [t |-> y_true, p |-> y_pred]), WindowSize)
          /\ Called("ok")
  /\ UNCHANGED <<clf, wclf, mtc, reg, wreg, mtr, wmtr, ref>>

WMtc_reset ==
  /\ kind = "WMtc" /\ op # "reset"
  /\ wmtc' = WMtcReset(wmtc)
  /\ WasReset
  /\ UNCHANGED <<clf, wclf, mtc, reg, wreg, mtr, wmtr>>

Reg_add_result ==
  /\ kind = "Reg" /\ calls < MaxCalls
  /\ \E io \in RegPairs :
       LET y_true == io[1]
           y_pred == io[2]
       IN /\ reg' = RegAddResult(reg, y_true, y_pred)
          /\ shadow' = RegAddResult(shadow, y_true, y_pred)
          /\ Called("ok")
  /\ UNCHANGED <<clf, wclf, mtc, wmtc, wreg, mtr, wmtr, hist, ref>>

Reg_reset ==
  /\ kind = "Reg" /\ op # "reset"
  /\ reg' = RegReset(reg)
  /\ WasReset
  /\ UNCHANGED <<clf, wclf, mtc, wmtc, wreg, mtr, wmtr>>

WReg_add_result ==
  /\ kind = "WReg" /\ calls < MaxCalls
  /\ \E io \in RegPairs :
       LET y_true == io[1]
           y_pred == io[2]
       IN /\ wreg' = WRegAddResult(wreg, y_true, y_pred)
          /\ shadow' = WRegAddResult(shadow, y_true, y_pred)
          /\ hist' = LastN(Append(hist, [t |-> y_true, p |-> y_pred]), WindowSize)
          /\ Called("ok")
  /\ UNCHANGED <<clf, wclf, mtc, wmtc, reg, mtr, wmtr, ref>>

WReg_reset ==
  /\ kind = "WReg" /\ op # "reset"
  /\ wreg' = WRegReset(wreg)
  /\ WasReset
  /\ UNCHANGED <<clf, wclf, mtc, wmtc, reg, mtr, wmtr>>

Mtr_add_result ==
  /\ kind = "Mtr" /\ calls < MaxCalls
  /\ \E io \in RegVecPairs :
       LET y == io[1]
           prediction == io[2]
       IN /\ mtr' = MtrAddResult(mtr, y, prediction)
          /\ shadow' = MtrAddResult(shadow, y, prediction)
          /\ Called("ok")
  /\ UNCHANGED <<clf, wclf, mtc, wmtc, reg, wreg, wmtr, hist, ref>>

Mtr_reset ==
  /\ kind = "Mtr" /\ op # "reset"
  /\ mtr' = MtrReset(mtr)
  /\ WasReset
  /\ UNCHANGED <<clf, wclf, mtc, wmtc, reg, wreg, wmtr>>

WMtr_add_result ==
  /\ kind = "WMtr" /\ calls < MaxCalls
  /\ \E io \in RegVecPairs :
       LET y == io[1]
           prediction == io[2]
       IN /\ wmtr' = WMtrAddResult(wmtr, y, prediction)
          /\ shadow' = WMtrAddResult(shadow, y, prediction)
          /\ hist' = LastN(Append(hist, [t |-> y, p |-> prediction]), WindowSize)
          /\ Called("ok")
  /\ UNCHANGED <<clf, wclf, mtc, wmtc, reg, wreg, mtr, ref>>

WMtr_reset ==
  /\ kind = "WMtr" /\ op # "reset"
  /\ wmtr' = WMtrReset(wmtr)
  /\ WasReset
  /\ UNCHANGED <<clf, wclf, mtc, wmtc, reg, wreg, mtr>>

Next ==
  \/ Clf_add_result
  \/ Clf_reset
  \/ WClf_add_result
  \/ WClf_reset
  \/ Mtc_add_result
  \/ Mtc_reset
  \/ WMtc_add_result
  \/ WMtc_reset
  \/ Reg_add_result
  \/ Reg_reset
  \/ WReg_add_result
  \/ WReg_reset
  \/ Mtr_add_result
  \/ Mtr_reset
  \/ WMtr_add_result
  \/ WMtr_reset

Spec == Init /\ [][Next]_vars

\* ------------------------------------------------------------- properties
\* the accumulator under test, its sample count and its metric queries
Cur ==
  CASE kind = "Clf" -> clf
    [] kind = "WClf" -> wclf
    [] kind = "Mtc" -> mtc
    [] kind = "WMtc" -> wmtc
    [] kind = "Reg" -> reg
    [] kind = "WReg" -> wreg
    [] kind = "Mtr" -> mtr
    [] kind = "WMtr" -> wmtr
SampleCountOf(s) ==
  CASE kind = "WClf" -> WClfSampleCount(s)
    [] kind = "WMtc" -> WMtcSampleCount(s)
    [] kind = "WReg" -> WRegSampleCount(s)
    [] kind = "WMtr" -> WMtrSampleCount(s)
    [] OTHER -> s.sample_count
MetricsOf(s) ==
  CASE kind = "Clf" -> ClfMetrics(s)
    [] kind = "WClf" -> WClfMetrics(s)
    [] kind = "Mtc" -> MtcMetrics(s)
    [] kind = "WMtc" -> WMtcMetrics(s)
    [] kind = "Reg" -> RegMetrics(s)
    [] kind = "WReg" -> WRegMetrics(s)
    [] kind = "Mtr" -> MtrMetrics(s)
    [] kind = "WMtr" -> WMtrMetrics(s)
Min(a, b) == IF a < b THEN a ELSE b

\* the per-target tallies built from scratch over the vector pairs of `h`
RECURSIVE VecCellCount(_, _, _, _)
VecCellCount(h, i, a, b) ==
  IF h = <<>> THEN 0
  ELSE (IF Head(h).t[i + 1] = a /\ Head(h).p[i + 1] = b THEN 1 ELSE 0)
       + VecCellCount(Tail(h), i, a, b)
MOLFromScratch(h) ==
  [i \in 0 .. NTargets - 1 |->
     [a \in 0 .. 1 |-> [b \in 0 .. 1 |-> VecCellCount(h, i, a, b)]]]

\* the error sums over the scalar pairs of `h`
RECURSIVE SumSquares(_)
SumSquares(h) ==
  IF h = <<>> THEN 0
  ELSE (Head(h).t - Head(h).p) * (Head(h).t - Head(h).p) + SumSquares(Tail(h))
RECURSIVE SumAbs(_)
SumAbs(h) ==
  IF h = <<>> THEN 0
  ELSE (IF Head(h).t >= Head(h).p THEN Head(h).t - Head(h).p
        ELSE Head(h).p - Head(h).t) + SumAbs(Tail(h))

\* C1: windowed classification, after each add_result: the tally's diagonal
\* sum and total sum equal those of the matrix built from scratch over the
\* retained (last window_size) observations.  Violated by the code.
C1_EvictionCorrectness ==
  (kind = "WClf" /\ op = "add_result") =>
     /\ get_sum_main_diagonal(wclf.confusion_matrix)
          = get_sum_main_diagonal(FromScratch(hist))
     /\ get_total_sum(wclf.confusion_matrix) = get_total_sum(FromScratch(hist))

\* C2: after every add_result of a classification accumulator every cell
\* (i, j) of the tally equals the summed weight of the retained observations
\* tallied at (i, j), for any valid weight; whole-stream: of all observations.
\* Violated by the code.
C2_WeightedTally ==
  /\ (kind = "Clf" /\ op = "add_result") => clf.confusion_matrix = ref.matrix
  /\ (kind = "WClf" /\ op = "add_result") => wclf.confusion_matrix = FromScratch(hist)

\* C3: windowed multi-target classification, after every add_result: each
\* per-target tally equals the tally built from scratch over the retained
\* vectors and get_total_sum() = sample_count * n_targets.  Violated by the code.
C3_MultiTargetEviction ==
  (kind = "WMtc" /\ op = "add_result") =>
     /\ wmtc.confusion_matrix = MOLFromScratch(hist)
     /\ WMtcGetTotalSum(wmtc) = WMtcSampleCount(wmtc) * wmtc.n_targets

\* C4: windowed regression, after k add_result calls with window size W:
\* total_square_error is the sum of (y_true - y_pred)^2 and average_error the
\* sum of |y_true - y_pred| over exactly the last min(k, W) observations,
\* get_mean_square_error() is that sum divided by min(k, W) (0 for k = 0), and
\* W = 2 with (1,1), (2,0), (3,5) gives mean-square-error 4.
C4_WindowedRegressionSums ==
  kind = "WReg" =>
     /\ Len(hist) = Min(succ, WindowSize)
     /\ WRegSampleCount(wreg) = Min(succ, WindowSize)
     /\ wreg.total_square_error = SumSquares(hist)
     /\ wreg.average_error = SumAbs(hist)
     /\ succ > 0 =>
          /\ IsNum(WRegGetMeanSquareError(wreg))
          /\ WRegGetMeanSquareError(wreg).n * Min(succ, WindowSize)
               = SumSquares(hist) * WRegGetMeanSquareError(wreg).d
     /\ (WindowSize = 2 /\ succ = 3
         /\ hist = <<[t |-> 2, p |-> 0], [t |-> 3, p |-> 5]>>)
          => WRegGetMeanSquareError(wreg) = Num(RInt(4))
\* C4's case: the third call of the scenario has evicted (1, 1)
C4_Witness ==
  /\ kind = "WReg" /\ succ = 3 /\ op = "add_result"
  /\ hist = <<[t |-> 2, p |-> 0], [t |-> 3, p |-> 5]>>
  /\ wreg.total_square_error = 8

\* C5: windowed classification, after every add_result: correct_no_change
\* equals the summed weight of the retained steps whose true label equalled
\* the true label of the step before them, for any valid weight.  Violated by
\* the code.
C5_NoChangeCounter ==
  (kind = "WClf" /\ op = "add_result") =>
     wclf.correct_no_change = NoChangeWeight(hist)

\* C6: every whole-stream accumulator's sample_count equals the number of
\* successful add_result calls since construction (or the last reset).
C6_Conservation ==
  /\ kind = "Clf" => clf.sample_count = succ
  /\ kind = "Mtc" => mtc.sample_count = succ
  /\ kind = "Reg" => reg.sample_count = succ
  /\ kind = "Mtr" => mtr.sample_count = succ
\* C6's case: three results counted, a failed call among the four made
C6_Witness ==
  kind = "Clf" /\ calls = 4 /\ succ = 3 /\ clf.sample_count = 3

\* C7: every windowed accumulator's sample_count equals min(k, W) after k
\* successful add_result calls since construction or reset, never exceeds W,
\* and the retained observations are the last min(k, W) (each add_result on a
\* full window evicts the oldest).  Violated by the code.
C7_WindowedSampleCount ==
  kind \in Windowed =>
     /\ SampleCountOf(Cur) = Min(succ, WindowSize)
     /\ SampleCountOf(Cur) <= WindowSize
     /\ kind \in {"WClf", "WMtc"} =>
          Cur.true_labels = [i \in 1 .. Len(hist) |-> hist[i].t]

\* C8: after reset(), every metric query returns what it returns on a
\* freshly constructed accumulator of the same configuration.  Violated by
\* the code.
C8_IdempotentReset ==
  op = "reset" => MetricsOf(Cur) = MetricsOf(InitOf(kind))

\* C9: reset() leaves every owned buffer empty and every running total zero,
\* and the results added after it yield, after each step, the metric values
\* of a freshly constructed accumulator given the same results.  Violated by
\* the code.
C9_ResetClearsState ==
  /\ op = "reset" =>
       (IF kind = "WMtr" THEN [Cur EXCEPT !.n_targets = 0] ELSE Cur) = InitOf(kind)
  /\ MetricsOf(Cur) = MetricsOf(shadow)

\* C10: with zero retained samples every ratio metric query returns 0.0, and
\* no metric query fails in any reachable state.  Violated by the code.
C10_ZeroSampleBoundary ==
  \A m \in DOMAIN MetricsOf(Cur) :
     /\ MetricsOf(Cur)[m].kind \notin {"ZeroDivisionError", "ValueError"}
     /\ SampleCountOf(Cur) = 0 => MetricsOf(Cur)[m] = Zero

\* ------------------------------- construction, wider inputs and queries
\* window_size arguments: negative, zero, and the size the buffers are
\* modelled with
WindowSizes == {-1, 0, WindowSize}
\* FastBuffer(max_size), FastComplexBuffer(max_size, width): TRUE when the
\* buffer is constructed, FALSE when InvalidCapacityError is raised
ValidCapacity(max_size) == max_size > 0
\* how the constructor of class k ends: the windowed classes construct their
\* ring buffers with window_size, the whole-stream classes have no buffer
ConstructorUnchecked(k, window_size) == "ok"
ConstructorOutcome(k, window_size) ==
  IF k \in Windowed /\ ~ValidCapacity(window_size) THEN "InvalidCapacityError"
  ELSE "ok"

\* classification inputs: labels in range, a list naming the true label
\* twice, valid and invalid weights
EdgeLabels == 0 .. NTargets - 1
EdgePredLists == {<<0>>, <<1, 0, 0>>}

\* no accumulator is constructed yet
FullInit ==
  /\ kind = "None"
  /\ clf = ClfInit
  /\ wclf = WClfInit
  /\ mtc = MtcInit
  /\ wmtc = WMtcInit
  /\ reg = RegInit
  /\ wreg = WRegInit
  /\ mtr = MtrInit
  /\ wmtr = WMtrInit
  /\ calls = 0
  /\ succ = 0
  /\ op = "none"
  /\ outcome = "ok"
  /\ hist = <<>>
  /\ ref = <<>>
  /\ shadow = <<>>
  /\ rtm = RtmInit
  /\ now = 0
  /\ arg = [class |-> "None", window_size |-> 0]
  /\ result = NoneV

\* the constructor of one of the eight classes; a failed construction
\* leaves no accumulator
Construct ==
  /\ kind = "None"
  /\ \E k \in Kinds :
       \E window_size \in IF k \in Windowed THEN WindowSizes ELSE {WindowSize} :
         LET out == ConstructorOutcome(k, window_size)
         IN /\ kind' = IF out = "ok" THEN k ELSE kind
            /\ ref' = IF out = "ok" THEN RefInitOf(k) ELSE ref
            /\ shadow' = IF out = "ok" THEN InitOf(k) ELSE shadow
            /\ outcome' = out
            /\ arg' = [class |-> k, window_size |-> window_size]
  /\ op' = "construct"
  /\ UNCHANGED <<accs, calls, succ, hist, rtm, now, result>>

Clf_add_result_edge ==
  /\ kind = "Clf" /\ calls < MaxCalls
  /\ \E y_true \in EdgeLabels, y_pred \in EdgePredLists, weight \in Weights :
       ClfCall(y_true, y_pred, weight)

Clf_add_result_invalid_weight ==
  /\ kind = "Clf" /\ calls < MaxCalls
  /\ \E y_true \in EdgeLabels, y_pred \in EdgePredLists, weight \in InvalidWeights :
       ClfCall(y_true, y_pred, weight)

WClf_add_result_edge ==
  /\ kind = "WClf" /\ calls < MaxCalls
  /\ \E y_true \in EdgeLabels, y_pred \in EdgePredLists, weight \in Weights :
       WClfCall(y_true, y_pred, weight)

WClf_add_result_invalid_weight ==
  /\ kind = "WClf" /\ calls < MaxCalls
  /\ \E y_true \in EdgeLabels, y_pred \in EdgePredLists, weight \in InvalidWeights :
       WClfCall(y_true, y_pred, weight)

\* multi-target vectors (y_true, y_pred) whose prediction lacks a target
ShortPredPairs == {<<(<<0, 1>>), (<<0>>)>>}
\* multi-target vectors (y_true, y_pred) narrower than the buffers
NarrowVecPairs == {<<(<<1>>), (<<1>>)>>, <<(<<0>>), (<<1>>)>>}

Mtc_add_result_short_prediction ==
  /\ kind = "Mtc" /\ calls < MaxCalls
  /\ \E io \in ShortPredPairs :
       LET y_true == io[1]
           y_pred == io[2]
       IN /\ Len(y_pred) < Len(y_true)
          /\ mtc' = MtcAtIndexError(mtc, y_true, y_pred)
          /\ shadow' = MtcAtIndexError(shadow, y_true, y_pred)
          /\ Called("IndexError")
  /\ UNCHANGED <<clf, wclf, wmtc, reg, wreg, mtr, wmtr, hist, ref>>

WMtc_add_result_mismatch ==
  /\ kind = "WMtc" /\ calls < MaxCalls
  /\ \E io \in NarrowVecPairs :
       LET y_true == io[1]
           y_pred == io[2]
       IN /\ ~ShapeMatches(BufferWidth, y_true)
          /\ wmtc' = WMtcAtShapeMismatch(wmtc, y_true, y_pred)
          /\ shadow' = WMtcAtShapeMismatch(shadow, y_true, y_pred)
          /\ Called("ShapeMismatchError")
  /\ UNCHANGED <<clf, wclf, mtc, reg, wreg, mtr, wmtr, hist, ref>>

\* what get_last(), sample_count and the get_* metric queries return
QueryResults ==
  [metrics |-> MetricsOf(Cur),
   last |-> <<Cur.last_true_label, Cur.last_prediction>>,
   sample_count |-> SampleCountOf(Cur)]
\* the accumulator after the queries: none of them assigns to a field
AfterQueriesDraining(s) == [s EXCEPT !.last_true_label = NoneV]
AfterQueries(s) == s

\* get_last(), sample_count, every get_* metric query and get_info()
get_metrics ==
  /\ kind \in Kinds
  /\ result' = Some(QueryResults)
  /\ clf' = IF kind = "Clf" THEN AfterQueries(clf) ELSE clf
  /\ wclf' = IF kind = "WClf" THEN AfterQueries(wclf) ELSE wclf
  /\ mtc' = IF kind = "Mtc" THEN AfterQueries(mtc) ELSE mtc
  /\ wmtc' = IF kind = "WMtc" THEN AfterQueries(wmtc) ELSE wmtc
  /\ reg' = IF kind = "Reg" THEN AfterQueries(reg) ELSE reg
  /\ wreg' = IF kind = "WReg" THEN AfterQueries(wreg) ELSE wreg
  /\ mtr' = IF kind = "Mtr" THEN AfterQueries(mtr) ELSE mtr
  /\ wmtr' = IF kind = "WMtr" THEN AfterQueries(wmtr) ELSE wmtr
  /\ op' = "query"
  /\ outcome' = "ok"
  /\ UNCHANGED <<kind, calls, succ, hist, ref, shadow, rtm, now, arg>>

FullNext ==
  \/ Construct
  \/ Clf_add_result_edge
  \/ Clf_add_result_invalid_weight
  \/ Clf_reset
  \/ WClf_add_result_edge
  \/ WClf_add_result_invalid_weight
  \/ WClf_reset
  \/ Mtc_add_result
  \/ Mtc_add_result_short_prediction
  \/ Mtc_reset
  \/ WMtc_add_result
  \/ WMtc_add_result_mismatch
  \/ WMtc_reset
  \/ Reg_add_result
  \/ Reg_reset
  \/ WReg_add_result
  \/ WReg_reset
  \/ Mtr_add_result
  \/ Mtr_reset
  \/ WMtr_add_result
  \/ WMtr_reset
  \/ get_metrics

FullSpec == FullInit /\ [][FullNext]_vars

\* C11: add_result of ClassificationMeasurements or
\* WindowClassificationMeasurements called with a negative, NaN or infinite
\* weight ends with the invalid-weight error and leaves every field of the
\* accumulator (sample count, tally, ring buffers, no-change counter,
\* last-label fields) as it was before the call.
C11_WeightRejectionAtomic ==
  [][(Clf_add_result_invalid_weight \/ WClf_add_result_invalid_weight)
       => /\ outcome' = "InvalidWeightError"
          /\ accs' = accs
          /\ SampleCountOf(Cur)' = SampleCountOf(Cur)
          /\ succ' = succ]_vars
\* a rejected call on a windowed accumulator that already holds results
C11_Witness ==
  /\ kind = "WClf" /\ op = "add_result" /\ outcome = "InvalidWeightError"
  /\ succ >= 1 /\ get_current_size(wclf.true_labels) = succ

\* the cells in which two tallies differ
CellsChanged(before, after) ==
  {c \in (0 .. NTargets - 1) \X (0 .. NTargets - 1) :
     before[c[1]][c[2]] # after[c[1]][c[2]]}
\* C12: a successful classification add_result(y_true, y_pred, weight)
\* records the reciprocal rank 1/(r+1) and adds weight to cell
\* (y_true, y_true) when y_true appears in y_pred at 0-based rank r, and
\* otherwise adds weight to cell (y_true, y_pred[0]) and records no non-zero
\* reciprocal rank; the whole-stream tally changes in exactly that cell.
C12_RankTallying ==
  [][(kind \in {"Clf", "WClf"} /\ op' = "add_result" /\ calls' = calls + 1
        /\ outcome' = "ok")
       => LET y_true == Cur'.last_true_label[1]
              y_pred == Cur'.last_prediction[1]
              cell == IF Appears(y_true, y_pred) THEN <<y_true, y_true>>
                      ELSE <<y_true, y_pred[1]>>
              rr == IF Appears(y_true, y_pred)
                    THEN Rat(1, FirstAt(y_true, y_pred)) ELSE RInt(0)
          IN /\ kind = "Clf" =>
                  /\ CellsChanged(clf.confusion_matrix, clf'.confusion_matrix) = {cell}
                  /\ clf'.rranks = IF rr.n # 0 THEN Append(clf.rranks, rr)
                                   ELSE clf.rranks
             /\ kind = "WClf" =>
                  /\ get_queue(wclf'.predictions)[get_current_size(wclf'.predictions)]
                       = cell[2]
                  /\ get_queue(wclf'.rranks)[get_current_size(wclf'.rranks)] = rr]_vars

\* C17: get_last(), sample_count, the get_* metric queries and get_info()
\* leave every field of every accumulator unchanged, and queries repeated
\* with no add_result or reset between them return the same values.
C17_QueriesArePureReads ==
  [][op' = "query"
       => /\ accs' = accs
          /\ (op = "query" => result' = result)]_vars
\* the queries were called on a windowed accumulator holding results
C17_Witness ==
  /\ kind = "WClf" /\ op = "query" /\ succ >= 2
  /\ result[1].sample_count = WindowSize
  /\ result[1].metrics.accuracy.kind = "num"

\* C20: constructing a windowed accumulator with window_size <= 0 ends with
\* the invalid-capacity error and leaves no accumulator; every windowed
\* accumulator that exists was constructed with a positive window_size.
C20_InvalidCapacityRejected ==
  /\ (op = "construct" /\ arg.class \in Windowed /\ arg.window_size <= 0)
       => (outcome = "InvalidCapacityError" /\ kind = "None")
  /\ kind \in Windowed => (arg.class = kind /\ arg.window_size > 0)
\* a windowed constructor was called with window_size = 0
C20_Witness ==
  /\ op = "construct" /\ arg.class = "WReg" /\ arg.window_size = 0
  /\ outcome = "InvalidCapacityError"

\* C13: for both classification accumulators in every reachable state,
\* get_recall() = get_accuracy(), get_precision() = get_accuracy() divided by
\* the prediction-list-size constant, and get_f1_score() =
\* 2 * precision * recall / (precision + recall), 0 when both are 0.
C13_PrecisionRecallF1 ==
  kind \in {"Clf", "WClf"} =>
     LET m == MetricsOf(Cur)
         a == AsRat(m.accuracy)
         p == AsRat(m.precision)
         r == AsRat(m.recall)
         f == AsRat(m.f1)
     IN /\ IsNum(m.accuracy) /\ IsNum(m.precision) /\ IsNum(m.recall) /\ IsNum(m.f1)
        /\ r = a
        /\ RMul(p, RInt(RecSize)) = a
        /\ IF p.n = 0 /\ r.n = 0 THEN f = RInt(0)
           ELSE RMul(f, RAdd(p, r)) = RMul(RInt(2), RMul(p, r))
\* accuracy 1/2: precision 1/4, recall 1/2, F1 1/3
C13_Witness ==
  /\ kind = "WClf" /\ op = "add_result"
  /\ WClfGetAccuracy(wclf) = Num(Rat(1, 2))
  /\ WClfGetF1(wclf) = Num(Rat(1, 3))

\* the true vectors and the predicted vectors of a list of observations
TrueVectors(h) == [i \in 1 .. Len(h) |-> h[i].t]
PredVectors(h) == [i \in 1 .. Len(h) |-> h[i].p]
\* C14: after k >= 1 add_result calls on the windowed multi-target
\* classification accumulator, get_hamming_score(), get_exact_match() and
\* get_j_index() equal hamming_score, exact_match and j_index applied to
\* exactly the last min(k, W) (true vector, predicted vector) pairs.
C14_WindowedMultiTargetMetrics ==
  (kind = "WMtc" /\ succ >= 1) =>
     /\ Len(hist) = Min(succ, WindowSize)
     /\ WMtcMetrics(wmtc).hamming_score = hamming_score(TrueVectors(hist), PredVectors(hist))
     /\ WMtcMetrics(wmtc).exact_match = exact_match(TrueVectors(hist), PredVectors(hist))
     /\ WMtcMetrics(wmtc).j_index = j_index(TrueVectors(hist), PredVectors(hist))
     /\ IsNum(WMtcMetrics(wmtc).hamming_score)
\* three calls with window 2: the exact match of the first call has left
C14_Witness ==
  /\ kind = "WMtc" /\ succ = WindowSize + 1 /\ op = "add_result"
  /\ WMtcMetrics(wmtc).exact_match = Num(RInt(0))
  /\ WMtcMetrics(wmtc).hamming_score = Num(Rat(1, 4))

\* the Jaccard sum of a list of observations
RECURSIVE JaccardSum(_)
JaccardSum(h) ==
  IF h = <<>> THEN RInt(0) ELSE RAdd(JaccardOf(Head(h).t, Head(h).p), JaccardSum(Tail(h)))
\* C16: in add_result of the whole-stream multi-target accumulator and in
\* the pure j_index, an observation whose vectors are both all-zero adds
\* exactly 1 to the Jaccard sum, every other observation adds
\* intersection / union, and no observation causes a division by zero.
C16_JIndexAllZeroConvention ==
  /\ kind = "Mtc" => /\ mtc.j_sum = ref.j
                     /\ succ >= 1 => MtcGetJIndex(mtc) = Num(RMul(ref.j, Rat(1, succ)))
  /\ (kind = "WMtc" /\ succ >= 1) =>
        j_index(get_queue(wmtc.true_labels), get_queue(wmtc.predictions))
          = Num(RMul(JaccardSum(hist), Rat(1, Len(hist))))
\* an all-zero observation after a partial overlap: the sum is 1/2 + 1
C16_Witness ==
  /\ kind = "Mtc" /\ succ = 2 /\ op = "add_result"
  /\ mtc.last_true_label = Some(<<0, 0>>) /\ mtc.last_prediction = Some(<<0, 0>>)
  /\ mtc.j_sum = Rat(3, 2)

\* ------------------------------------------- the elapsed-time accumulator
\* the time that passes until timer() is read again
Ticks == {1, 2}
\* increment arguments of update_time_measurements
Increments == {-1, 0, 2}

\* hist is the log of the timer calls and resets made, oldest first
TimeInit ==
  /\ kind = "Rtm"
  /\ clf = ClfInit
  /\ wclf = WClfInit
  /\ mtc = MtcInit
  /\ wmtc = WMtcInit
  /\ reg = RegInit
  /\ wreg = WRegInit
  /\ mtr = MtrInit
  /\ wmtr = WMtrInit
  /\ calls = 0
  /\ succ = 0
  /\ op = "init"
  /\ outcome = "ok"
  /\ hist = <<>>
  /\ ref = <<>>
  /\ shadow = <<>>
  /\ rtm = RtmInit
  /\ now = 0
  /\ arg = [increment |-> 1]
  /\ result = NoneV

\* what every call on the elapsed-time accumulator records beside it
TimeCalled(name, out) ==
  /\ calls' = calls + 1
  /\ op' = name
  /\ outcome' = out
  /\ UNCHANGED <<kind, accs, succ, ref, shadow, result>>

compute_training_time_begin ==
  /\ kind = "Rtm" /\ calls < MaxCalls
  /\ \E d \in Ticks : now' = now + d
  /\ rtm' = RtmTrainingBegin(rtm, now')
  /\ hist' = Append(hist, [e |-> "training_begin", t |-> now'])
  /\ TimeCalled("compute_training_time_begin", "ok")
  /\ UNCHANGED arg

compute_training_time_end ==
  /\ kind = "Rtm" /\ calls < MaxCalls
  /\ \E d \in Ticks : now' = now + d
  /\ rtm' = RtmTrainingEnd(rtm, now').s
  /\ hist' = IF RtmTrainingEnd(rtm, now').out = "ok"
             THEN Append(hist, [e |-> "training_end", t |-> now']) ELSE hist
  /\ TimeCalled("compute_training_time_end", RtmTrainingEnd(rtm, now').out)
  /\ UNCHANGED arg

compute_testing_time_begin ==
  /\ kind = "Rtm" /\ calls < MaxCalls
  /\ \E d \in Ticks : now' = now + d
  /\ rtm' = RtmTestingBegin(rtm, now')
  /\ hist' = Append(hist, [e |-> "testing_begin", t |-> now'])
  /\ TimeCalled("compute_testing_time_begin", "ok")
  /\ UNCHANGED arg

compute_testing_time_end ==
  /\ kind = "Rtm" /\ calls < MaxCalls
  /\ \E d \in Ticks : now' = now + d
  /\ rtm' = RtmTestingEnd(rtm, now').s
  /\ hist' = IF RtmTestingEnd(rtm, now').out = "ok"
             THEN Append(hist, [e |-> "testing_end", t |-> now']) ELSE hist
  /\ TimeCalled("compute_testing_time_end", RtmTestingEnd(rtm, now').out)
  /\ UNCHANGED arg

update_time_measurements ==
  /\ kind = "Rtm" /\ calls < MaxCalls
  /\ \E increment \in Increments :
       /\ rtm' = RtmUpdate(rtm, increment)
       /\ arg' = [increment |-> increment]
  /\ TimeCalled("update_time_measurements", "ok")
  /\ UNCHANGED <<hist, now>>

Rtm_reset ==
  /\ kind = "Rtm" /\ calls < MaxCalls /\ op # "reset"
  /\ rtm' = RtmReset(rtm)
  /\ hist' = Append(hist, [e |-> "reset", t |-> now])
  /\ TimeCalled("reset", "ok")
  /\ UNCHANGED <<now, arg>>

TimeNext ==
  \/ compute_training_time_begin
  \/ compute_training_time_end
  \/ compute_testing_time_begin
  \/ compute_testing_time_end
  \/ update_time_measurements
  \/ Rtm_reset

TimeSpec == TimeInit /\ [][TimeNext]_vars

RECURSIVE LastEvent(_, _, _)
LastEvent(log, n, name) ==
  IF n = 0 THEN NoneV
  ELSE IF log[n].e = name THEN Some(log[n].t) ELSE LastEvent(log, n - 1, name)
\* the total of a phase over the first n events of the log: each end adds
\* the time since the most recent begin of that phase; a reset zeroes it
RECURSIVE PhaseTotal(_, _, _, _)
PhaseTotal(log, n, begin, end) ==
  IF n = 0 THEN 0
  ELSE IF log[n].e = "reset" THEN 0
  ELSE PhaseTotal(log, n - 1, begin, end)
       + (IF log[n].e = end THEN log[n].t - LastEvent(log, n - 1, begin)[1] ELSE 0)
\* C19: each compute_training_time_end adds to the training total exactly
\* the time since the most recent compute_training_time_begin, whatever
\* testing-phase calls came between; the training calls leave the testing
\* total and start untouched, and symmetrically; a second begin before the
\* end replaces the earlier start.
C19_PhasesIndependent ==
  kind = "Rtm" =>
     /\ rtm.training_time = PhaseTotal(hist, Len(hist), "training_begin", "training_end")
     /\ rtm.testing_time = PhaseTotal(hist, Len(hist), "testing_begin", "testing_end")
     /\ rtm.training_start = LastEvent(hist, Len(hist), "training_begin")
     /\ rtm.testing_start = LastEvent(hist, Len(hist), "testing_begin")
\* a testing phase inside a training phase
C19_Witness ==
  /\ kind = "Rtm" /\ Len(hist) = 4
  /\ hist[1].e = "training_begin" /\ hist[2].e = "testing_begin"
  /\ hist[3].e = "testing_end" /\ hist[4].e = "training_end"
  /\ rtm.training_time = hist[4].t - hist[1].t
  /\ rtm.testing_time = hist[3].t - hist[2].t
  /\ rtm.training_time > rtm.testing_time

\* ------------------------------------------- the pure aggregate functions
\* rows of a pair of label matrices
MaxRows == 4
\* (true row, predicted row) pairs of width 4: the four rows of the
\* documented example and a row that is all-zero in both
PureRows ==
  {[t |-> <<0, 1, 0, 1>>, p |-> <<0, 1, 0, 1>>],
   [t |-> <<0, 0, 0, 1>>, p |-> <<0, 1, 1, 0>>],
   [t |-> <<1, 1, 0, 1>>, p |-> <<0, 1, 0, 1>>],
   [t |-> <<1, 1, 1, 1>>, p |-> <<1, 1, 1, 1>>],
   [t |-> <<0, 0, 0, 0>>, p |-> <<0, 0, 0, 0>>]}
\* the documented example
Scenario ==
  <<[t |-> <<0, 1, 0, 1>>, p |-> <<0, 1, 0, 1>>],
    [t |-> <<0, 0, 0, 1>>, p |-> <<0, 1, 1, 0>>],
    [t |-> <<1, 1, 0, 1>>, p |-> <<0, 1, 0, 1>>],
    [t |-> <<1, 1, 1, 1>>, p |-> <<1, 1, 1, 1>>]>>

\* hist is the pair of matrices, row by row
PureInit ==
  /\ kind = "Pure"
  /\ hist \in UNION {[1 .. n -> PureRows] : n \in 1 .. MaxRows}
  /\ clf = ClfInit
  /\ wclf = WClfInit
  /\ mtc = MtcInit
  /\ wmtc = WMtcInit
  /\ reg = RegInit
  /\ wreg = WRegInit
  /\ mtr = MtrInit
  /\ wmtr = WMtrInit
  /\ calls = 0
  /\ succ = 0
  /\ op = "init"
  /\ outcome = "ok"
  /\ ref = <<>>
  /\ shadow = <<>>
  /\ rtm = RtmInit
  /\ now = 0
  /\ arg = [class |-> "None", window_size |-> 0]
  /\ result = NoneV

Applied(name, value) ==
  /\ op' = name
  /\ result' = Some(value)
  /\ UNCHANGED <<kind, accs, calls, succ, outcome, hist, ref, shadow, rtm, now, arg>>

hamming_score_call ==
  kind = "Pure" /\ Applied("hamming_score", hamming_score(TrueVectors(hist), PredVectors(hist)))
j_index_call ==
  kind = "Pure" /\ Applied("j_index", j_index(TrueVectors(hist), PredVectors(hist)))
exact_match_call ==
  kind = "Pure" /\ Applied("exact_match", exact_match(TrueVectors(hist), PredVectors(hist)))

PureNext == hamming_score_call \/ j_index_call \/ exact_match_call

PureSpec == PureInit /\ [][PureNext]_vars

\* C15: hamming_score is the number of matching positions divided by N * L,
\* exact_match the number of rows matching in all L positions divided by N,
\* j_index the mean over the rows of |positive in both| / |positive in
\* either|; on the documented example they return 3/4, 1/2 and 2/3.
C15_PureAggregates ==
  (kind = "Pure" /\ result # NoneV) =>
     LET N == Len(hist)
         L == Len(hist[1].t)
         matching == {c \in (1 .. N) \X (1 .. L) : hist[c[1]].t[c[2]] = hist[c[1]].p[c[2]]}
         exact == {i \in 1 .. N : hist[i].t = hist[i].p}
     IN /\ op = "hamming_score" =>
             /\ result[1] = Num(Rat(Cardinality(matching), N * L))
             /\ hist = Scenario => result[1] = Num(Rat(3, 4))
        /\ op = "exact_match" =>
             /\ result[1] = Num(Rat(Cardinality(exact), N))
             /\ hist = Scenario => result[1] = Num(Rat(1, 2))
        /\ op = "j_index" =>
             /\ result[1] = Num(RMul(JaccardSum(hist), Rat(1, N)))
             /\ hist = Scenario => result[1] = Num(Rat(2, 3))
\* hamming_score applied to the documented example
C15_Witness ==
  /\ kind = "Pure" /\ hist = Scenario /\ op = "hamming_score"
  /\ result = Some(Num(Rat(3, 4)))

\* ------------------ one whole-stream and one windowed classification
\* accumulator, built with the same targets and given the same calls
PairInit ==
  /\ kind = "Pair"
  /\ clf = ClfInit
  /\ wclf = WClfInit
  /\ mtc = MtcInit
  /\ wmtc = WMtcInit
  /\ reg = RegInit
  /\ wreg = WRegInit
  /\ mtr = MtrInit
  /\ wmtr = WMtrInit
  /\ calls = 0
  /\ succ = 0
  /\ op = "init"
  /\ outcome = [clf |-> "ok", wclf |-> "ok"]
  /\ hist = <<>>
  /\ ref = <<>>
  /\ shadow = <<>>
  /\ rtm = RtmInit
  /\ now = 0
  /\ arg = [y_true |-> 0, y_pred |-> <<>>, weight |-> 1]
  /\ result = NoneV

\* clf.add_result(y_true, y_pred, weight); wclf.add_result(y_true, y_pred,
\* weight), while the window is not full
Pair_add_result ==
  /\ kind = "Pair" /\ calls < WindowSize
  /\ \E y_true \in Labels, y_pred \in PredLists, weight \in Weights :
       LET rc == ClfAddResult(clf, y_true, y_pred, weight)
           rw == WClfAddResult(wclf, y_true, y_pred, weight)
       IN /\ clf' = rc.s
          /\ wclf' = rw.s
          /\ outcome' = [clf |-> rc.out, wclf |-> rw.out]
          /\ succ' = IF rc.out = "ok" THEN succ + 1 ELSE succ
          /\ arg' = [y_true |-> y_true, y_pred |-> y_pred, weight |-> weight]
  /\ calls' = calls + 1
  /\ op' = "add_result"
  /\ UNCHANGED <<kind, mtc, wmtc, reg, wreg, mtr, wmtr, hist, ref, shadow, rtm, now, result>>

PairNext == Pair_add_result

PairSpec == PairInit /\ [][PairNext]_vars

\* C21: a classification add_result whose true label or tallied predicted
\* label (the true label when it appears in the list, else the top-ranked
\* prediction) lies outside [0, n) fails with the index-out-of-range error
\* and changes no cell of the tally, in the whole-stream and in the windowed
\* accumulator.  With an empty prediction list there is no tallied
\* prediction: the error is the IndexError of reading y_pred[0].
C21_OutOfRangeRejected ==
  [][(kind = "Pair" /\ op' = "add_result" /\ calls' = calls + 1)
       => LET y_true == arg'.y_true
              y_pred == arg'.y_pred
              InDim(i) == i \in 0 .. NTargets - 1
              outside == \/ ~InDim(y_true)
                         \/ /\ y_pred # <<>>
                            /\ ~InDim(IF Appears(y_true, y_pred) THEN y_true ELSE y_pred[1])
              expected == IF y_pred = <<>> THEN "IndexError" ELSE "IndexOutOfRangeError"
          IN outside =>
               /\ outcome'.clf = expected
               /\ outcome'.wclf = expected
               /\ clf'.confusion_matrix = clf.confusion_matrix
               /\ wclf'.confusion_matrix = wclf.confusion_matrix]_vars
\* a prediction outside the matrix, after a result was tallied
C21_Witness ==
  /\ kind = "Pair" /\ op = "add_result" /\ calls = 2 /\ succ = 1
  /\ arg.y_true = 0 /\ arg.y_pred = <<NTargets>>
  /\ outcome.wclf = "IndexOutOfRangeError" /\ outcome.clf = "IndexOutOfRangeError"
  /\ get_total_sum(wclf.confusion_matrix) >= 1

\* C26: while at most window_size calls were made, the whole-stream and the
\* windowed classification accumulator given the same calls hold the same
\* tally, the same sample_count and the same correct_no_change, and after
\* every call report the same accuracy, precision, recall, F1 and mean
\* reciprocal rank.  Violated by the code.
C26_WindowedAgreesBeforeFull ==
  (kind = "Pair" /\ calls <= WindowSize) =>
     /\ clf.confusion_matrix = wclf.confusion_matrix
     /\ clf.sample_count = WClfSampleCount(wclf)
     /\ clf.correct_no_change = wclf.correct_no_change
     /\ calls >= 1 => ClfMetrics(clf) = WClfMetrics(wclf)

LastOf(s) == <<s.last_true_label, s.last_prediction>>
\* C24: get_last() returns (None, None) on a fresh or just-reset
\* accumulator, is left as it was by a failed add_result, and after a
\* successful add_result(y_true, y_pred) returns exactly (y_true, y_pred),
\* the prediction as it was passed.  Violated by the code.
C24_GetLastTracksLatest ==
  [][/\ (op' = "reset" \/ (op' = "construct" /\ outcome' = "ok"))
          => LastOf(Cur') = <<NoneV, NoneV>>
     /\ (op' = "add_result" /\ calls' = calls + 1 /\ outcome' # "ok")
          => LastOf(Cur') = LastOf(Cur)
     /\ (op' = "add_result" /\ calls' = calls + 1 /\ outcome' = "ok")
          => /\ \A y_true \in EdgeLabels, y_pred \in EdgePredLists, weight \in Weights :
                  (\/ kind = "Clf" /\ clf' = ClfAddResult(clf, y_true, y_pred, weight).s
                   \/ kind = "WClf" /\ wclf' = WClfAddResult(wclf, y_true, y_pred, weight).s)
                    => LastOf(Cur') = <<Some(y_true), Some(y_pred)>>
             /\ \A io \in LabelVecPairs :
                  (\/ kind = "Mtc" /\ mtc' = MtcAddResult(mtc, io[1], io[2])
                   \/ kind = "WMtc" /\ wmtc' = WMtcAddResult(wmtc, io[1], io[2]))
                    => LastOf(Cur') = <<Some(io[1]), Some(io[2])>>
             /\ \A io \in RegPairs :
                  (\/ kind = "Reg" /\ reg' = RegAddResult(reg, io[1], io[2])
                   \/ kind = "WReg" /\ wreg' = WRegAddResult(wreg, io[1], io[2]))
                    => LastOf(Cur') = <<Some(io[1]), Some(io[2])>>
             /\ \A io \in RegVecPairs :
                  (\/ kind = "Mtr" /\ mtr' = MtrAddResult(mtr, io[1], io[2])
                   \/ kind = "WMtr" /\ wmtr' = WMtrAddResult(wmtr, io[1], io[2]))
                    => LastOf(Cur') = <<Some(io[1]), Some(io[2])>>]_vars

\* C23: get_mean_square_error() and get_average_error() of the whole-stream
\* and the windowed regression accumulator return 0 when sample_count is 0
\* and otherwise the running squared-error sum, respectively absolute-error
\* sum, divided by the current sample_count.
C23_RegressionMeans ==
  kind \in {"Reg", "WReg"} =>
     LET n == SampleCountOf(Cur)
         m == MetricsOf(Cur)
     IN IF n = 0
        THEN m.mean_square_error = Zero /\ m.average_error = Zero
        ELSE /\ IsNum(m.mean_square_error) /\ IsNum(m.average_error)
             /\ m.mean_square_error.n * n = Cur.total_square_error * m.mean_square_error.d
             /\ m.average_error.n * n = Cur.average_error * m.average_error.d
\* (1, 1) then (2, 0): sums 4 and 2 over two samples
C23_Witness ==
  /\ kind = "Reg" /\ succ = 2 /\ reg.sample_count = 2
  /\ reg.total_square_error = 4
  /\ RegMetrics(reg).mean_square_error = Num(RInt(2))
  /\ RegMetrics(reg).average_error = Num(RInt(1))

\* C25: after k >= 1 add_result calls with 0/1 vectors of one length on the
\* whole-stream multi-target classification accumulator,
\* get_hamming_score(), get_exact_match() and get_j_index() equal
\* hamming_score, exact_match and j_index applied to the history of the k
\* (true, predicted) pairs, and the hamming score is the tally's diagonal
\* sum divided by sample_count * n_targets.
C25_WholeStreamAgreesWithBatch ==
  (kind = "Mtc" /\ succ >= 1) =>
     /\ Len(hist) = succ
     /\ MtcGetHammingScore(mtc) = hamming_score(TrueVectors(hist), PredVectors(hist))
     /\ MtcGetExactMatch(mtc) = exact_match(TrueVectors(hist), PredVectors(hist))
     /\ MtcGetJIndex(mtc) = j_index(TrueVectors(hist), PredVectors(hist))
     /\ MtcGetHammingScore(mtc)
          = Num(Rat(MOLSumMainDiagonal(mtc.confusion_matrix),
                    mtc.sample_count * mtc.n_targets))
\* three results: half of the six labels match, one row matches entirely
C25_Witness ==
  /\ kind = "Mtc" /\ succ = 3 /\ op = "add_result"
  /\ MtcGetHammingScore(mtc) = Num(Rat(1, 2))
  /\ MtcGetExactMatch(mtc) = Num(Rat(1, 3))

\* C27: in the windowed classification accumulator, after every add_result,
\* successful or failed, the true-label buffer, the prediction buffer, the
\* reciprocal-rank buffer and the no-change correction buffer hold the same
\* number of elements, and their i-th oldest elements are those of the i-th
\* oldest retained step.  Violated by the code.
C27_BuffersInLockstep ==
  kind = "WClf" =>
     /\ get_current_size(wclf.predictions) = get_current_size(wclf.true_labels)
     /\ get_current_size(wclf.rranks) = get_current_size(wclf.true_labels)
     /\ get_current_size(wclf.correct_no_change_correction)
          = get_current_size(wclf.true_labels)
     /\ get_current_size(wclf.true_labels) = Len(hist)
     /\ \A i \in 1 .. Len(hist) :
          /\ get_queue(wclf.true_labels)[i] = hist[i].t
          /\ get_queue(wclf.predictions)[i] = hist[i].p
          /\ get_queue(wclf.rranks)[i] = hist[i].rr
          /\ (get_queue(wclf.correct_no_change_correction)[i] # 0) = hist[i].nochange

\* C28: in the windowed classification accumulator with window size W, a
\* successful add_result issues no tally removal while fewer than W results
\* are retained and exactly one removal afterwards, of the pair tallied by
\* the call made W successful calls earlier, so that temp = max(0, k - W)
\* after k successful calls.  Violated by the code.
C28_EvictionOrdering ==
  [][(kind = "WClf" /\ op' = "add_result" /\ calls' = calls + 1 /\ outcome' = "ok")
       => LET o == hist'[Len(hist')]
              tallied == CMUpdate(wclf.confusion_matrix, o.t, o.p, o.w)
          IN /\ wclf'.temp = (IF succ' > WindowSize THEN succ' - WindowSize ELSE 0)
             /\ IF succ >= WindowSize
                THEN \E weight \in Weights :
                       wclf'.confusion_matrix
                         = CMRemove(tallied, hist[1].t, hist[1].p, weight)
                ELSE wclf'.confusion_matrix = tallied]_vars

\* C29: every cell of the tally of both classification accumulators and of
\* both multi-target classification accumulators is >= 0 in every state
\* reachable by add_result and reset calls with valid weights.  Violated by
\* the code.
C29_CellsNeverNegative ==
  /\ kind \in {"Clf", "WClf"} =>
       \A i \in DOMAIN Cur.confusion_matrix : \A j \in DOMAIN Cur.confusion_matrix[i] :
          Cur.confusion_matrix[i][j] >= 0
  /\ kind \in {"Mtc", "WMtc"} =>
       \A i \in DOMAIN Cur.confusion_matrix : \A a \in 0 .. 1 : \A b \in 0 .. 1 :
          Cur.confusion_matrix[i][a][b] >= 0

\* C30: in the windowed classification accumulator, in every state
\* reachable with valid weights, the tally's diagonal sum exceeds neither
\* window_size nor the current sample_count, and get_accuracy() lies in
\* [0, 1].  Violated by the code.
C30_WindowedAccuracyBounded ==
  kind = "WClf" =>
     /\ get_sum_main_diagonal(wclf.confusion_matrix) <= WindowSize
     /\ get_sum_main_diagonal(wclf.confusion_matrix) <= WClfSampleCount(wclf)
     /\ IsNum(WClfGetAccuracy(wclf))
     /\ 0 <= WClfGetAccuracy(wclf).n
     /\ WClfGetAccuracy(wclf).n <= WClfGetAccuracy(wclf).d

====
